---------------------------- MODULE Spec2Model ----------------------------
(***************************************************************************)
(* Enduro tracker telemetry pipeline: raw store (api/ingest.py upload),    *)
(* fix decoder (workers/parse_worker.py), retention utility                *)
(* (utils/delete_points_by_epoch.py) and the pure track builder            *)
(* (utils/gpx.py filter_fixes_by_window, _build_geojson_string).           *)
(*                                                                         *)
(* Conventions.  A Python value that may be None is a set: {} is None and  *)
(* {v} is the value v.  A float produced by de-scaling is the pair         *)
(* [n, d] standing for n/d.  A table is a set of row records (points) or   *)
(* a sequence of row records whose index is the primary key (ingest_raw,   *)
(* which is never deleted from).                                           *)
(***************************************************************************)
EXTENDS Integers, Sequences, FiniteSets

VARIABLES
    raw,      \* table ingest_raw: sequence of rows, id = index
    points,   \* table points: set of rows
    dec,      \* parse_worker: position in _process_batch_once and its locals
    resp,     \* HTTP status of the last /api/v1/upload response (0: none yet)
    tb,       \* track builder call frame: arguments and results
    riders,   \* table race_riders: set of rows
    cache,    \* table track_cache: set of rows, one per race_rider_id
    hist,     \* table track_hist: sequence of rows, id = index
    live,     \* gpx_worker: position in main's loop, last_max_t
    ret,      \* what the last call of the retention utility returned
    up        \* requests to /api/v1/upload-text in flight, by request number

vars == <<raw, points, dec, resp, tb, riders, cache, hist, live, ret, up>>

(* the tables and processes the raw store and the decoder never touch *)
others == <<riders, cache, hist, live, ret, up>>

-----------------------------------------------------------------------------
(* Bounds of the model *)

MaxRaw == 2          \* ingest_raw rows stored in a run of the pipeline
MaxCopies == 4       \* submissions of one payload in the repeated-upload scenario
BATCH_SIZE == 2      \* parse_worker.BATCH_SIZE, scaled down from 200
MaxEpoch == 2        \* retention ranges are drawn from 0..MaxEpoch
MaxTrackLen == 3     \* fixes in one track builder call
MaxHist == 3         \* track_hist rows
MaxUploads == 2      \* text-log uploads in flight together
MaxEntries == 2      \* race_riders ids a correction is requested for

(* Program constants *)

PARSE_ERROR_MAX == 500     \* str(e)[:500]
LAT_DIV == 1000000         \* lat1e6 / 1e6, lon1e6 / 1e6
ALT_DIV == 10              \* alt10 / 10.0, cog10 / 10.0, hdop10 / 10.0
SOG_DIV == 100             \* sog100 / 100.0

None == {}
Some(v) == {v}
The(opt) == CHOOSE v \in opt : TRUE

Min(a, b) == IF a <= b THEN a ELSE b

-----------------------------------------------------------------------------
(* Inputs: compact fix arrays [utc, lat1e6, lon1e6, alt10, sog100, cog10,  *)
(* fx, hdop10, nsat], each element None or an integer.                     *)

FixA    == << {1}, {10}, {20}, {}, {}, {}, {1}, {}, {8} >>
FixA2   == << {1}, {11}, {21}, {5}, {}, {}, {1}, {}, {7} >>   \* same second as FixA
FixB    == << {2}, {12}, {22}, {105}, {250}, {1800}, {1}, {12}, {9} >>
FixNoLat == << {2}, {}, {22}, {}, {}, {}, {0}, {}, {0} >>     \* sensor dropout
FixNoUtc == << {}, {10}, {20}, {}, {}, {}, {1}, {}, {8} >>
FixShort == << {1}, {10} >>                                   \* wrong arity
FixNeg  == << {-1}, {10}, {20}, {}, {}, {}, {1}, {}, {8} >>   \* a clock before 1970
FixPi1  == << {1700000000}, {374000000}, {-1220000000}, {}, {}, {}, {1}, {}, {8} >>

Devices == {"d1", "d2"}

(* A request body of POST /api/v1/upload as request.get_json(silent=True)  *)
(* returns it.  kind "none": no body or invalid JSON (None); "dict": a     *)
(* JSON object; "array": a non-empty JSON array.  pid and f are tagged     *)
(* with their JSON type; "missing" is an absent key.                       *)
Str(s) == [ty |-> "str", v |-> s]
MissingKey == [ty |-> "missing", v |-> ""]
IntVal(s) == [ty |-> "int", v |-> s]
List(fs) == [ty |-> "list", v |-> fs]
NotAList == [ty |-> "str", v |-> <<>>]
NoKeyList == [ty |-> "missing", v |-> <<>>]

Body(pid, f) == [kind |-> "dict", pid |-> pid, f |-> f]

ValidBodies ==
    { Body(Str("d1"), List(<<FixA>>)),
      Body(Str("d1"), List(<<FixA2, FixB>>)),
      Body(Str("d1"), List(<<FixNoLat, FixShort, FixNoUtc>>)),
      Body(Str("d2"), List(<<FixA, FixA2>>)) }      \* one second twice

EmptyPidBody == Body(Str(""), List(<<FixB>>))

MalformedBodies ==
    { [kind |-> "none", pid |-> MissingKey, f |-> NoKeyList],
      [kind |-> "array", pid |-> MissingKey, f |-> NoKeyList],
      Body(MissingKey, NoKeyList),                \* {} is falsy
      Body(MissingKey, List(<<FixA>>)),
      Body(IntVal("5"), List(<<FixA>>)),
      Body(Str("d1"), NotAList),
      Body(Str("d1"), NoKeyList) }

Bodies == ValidBodies \cup {EmptyPidBody} \cup MalformedBodies

-----------------------------------------------------------------------------
(* JSON text.  json.dumps({"device_id": d, "f": fixes}, separators=...)    *)
(* is modelled by the document it denotes; text that is not JSON is a      *)
(* document of kind "garbage" carrying the message json.loads raises.      *)

JsonDumps(device_id, fixes) ==
    [kind |-> "json", device_id |-> device_id, f |-> fixes, msglen |-> 0]

Garbage == [kind |-> "garbage", device_id |-> "", f |-> <<>>, msglen |-> 41]

JsonLoadsRaises(text) == text.kind # "json"

(* str(e)[:500]: the message, cut to at most 500 characters *)
TruncatedError(text) == [msg |-> "JSONDecodeError", len |-> Min(text.msglen, PARSE_ERROR_MAX)]

TbIdle == [fixes |-> <<>>, s |-> None, f |-> None, out |-> None, gj |-> None]

(* gpx_worker.main between two ticks (time.sleep).  last_max_t is the     *)
(* dict of that name, a function on the devices it has a key for; did and  *)
(* outcome tell what the last iteration of the device loop did, window the *)
(* start_epoch and finish_epoch main last passed to the builder.           *)
LiveIdle(last_max_t, did, outcome) ==
    [pc |-> "sleep", devices |-> <<>>, last_max_t |-> last_max_t,
     did |-> did, outcome |-> outcome, window |-> None]

NoWatermark == [d \in {} |-> 0]

(* a call of delete_points_by_epoch_range: pc "idle" before any call,      *)
(* "counted" between its count and its delete, "returned" with count as    *)
(* the return value, "raised" after the ValueError                         *)
RetCall(pc, start_epoch, end_epoch, device_id, dry_run, count) ==
    [pc |-> pc, start_epoch |-> start_epoch, end_epoch |-> end_epoch,
     device_id |-> device_id, dry_run |-> dry_run, count |-> count]

RetNone == RetCall("idle", 0, 0, None, FALSE, 0)

(* no text-log upload in flight *)
UpNone == <<>>

(* no race entries, no tracks, the worker not started, no retention call *)
RestIdle ==
    /\ riders = {}
    /\ cache = {}
    /\ hist = <<>>
    /\ live = LiveIdle(NoWatermark, "", "none")
    /\ ret = RetNone
    /\ up = UpNone


-----------------------------------------------------------------------------
(* parse_worker._convert_fix *)

(* mutant: the scaled integer stored as it came *)
DescaleNone(v, div) == IF v = None THEN None ELSE Some([n |-> The(v), d |-> 1])

Descale(v, div) == IF v = None THEN None ELSE Some([n |-> The(v), d |-> div])

(* int(x) for x None or an integer: raises on None *)
IntRaises(v) == v = None

_convert_fix(row, device_id) ==
    IF Len(row) # 9
    THEN None                                  \* tuple unpacking raises
    ELSE LET utc == row[1]
             lat == Descale(row[2], LAT_DIV)
             lon == Descale(row[3], LAT_DIV)
             ele == Descale(row[4], ALT_DIV)
             sog == Descale(row[5], SOG_DIV)
             cog == Descale(row[6], ALT_DIV)
             hdop == Descale(row[8], ALT_DIV)
         IN  IF IntRaises(utc)
             THEN None                         \* int(None) raises
             ELSE IF lat = None \/ lon = None
             THEN None
             ELSE Some([device_id |-> device_id,
                        t_epoch |-> The(utc),
                        lat |-> The(lat), lon |-> The(lon),
                        ele |-> ele, sog |-> sog, cog |-> cog, hdop |-> hdop,
                        fx |-> row[7], nsat |-> row[9]])

(* the inner loop of _process_batch_once over one payload's fixes *)
RECURSIVE ConvertAll(_, _)
ConvertAll(fixes, device_id) ==
    IF fixes = <<>>
    THEN <<>>
    ELSE LET pt == _convert_fix(Head(fixes), device_id)
         IN  (IF pt = None THEN <<>> ELSE <<The(pt)>>)
             \o ConvertAll(Tail(fixes), device_id)

-----------------------------------------------------------------------------
(* The relational store *)

Key(p) == <<p.device_id, p.t_epoch>>

(* mutant: the table without its unique index *)
ux_missing(tbl, p) == TRUE

(* UniqueConstraint("device_id", "t_epoch", name="ux_points_device_time") *)
ux_points_device_time(tbl, p) == \A r \in tbl : Key(r) # Key(p)

(* the primary key of a new row: a value no row of the table holds (the    *)
(* smallest one; no operation of the pipeline reads Point.id)              *)
NextId(tbl) ==
    CHOOSE k \in 1..(Cardinality(tbl) + 1) :
        /\ \A r \in tbl : r.id # k
        /\ \A j \in 1..(k - 1) : \E r \in tbl : r.id = j

Row(tbl, p) ==
    [id |-> NextId(tbl), device_id |-> p.device_id, t_epoch |-> p.t_epoch,
     lat |-> p.lat, lon |-> p.lon, ele |-> p.ele, sog |-> p.sog,
     cog |-> p.cog, hdop |-> p.hdop, fx |-> p.fx, nsat |-> p.nsat]

(* a row without its primary key: the values a fix was stored with *)
Values(r) ==
    [device_id |-> r.device_id, t_epoch |-> r.t_epoch,
     lat |-> r.lat, lon |-> r.lon, ele |-> r.ele, sog |-> r.sog,
     cog |-> r.cog, hdop |-> r.hdop, fx |-> r.fx, nsat |-> r.nsat]

(* mutant: a flush that replaces the stored row of a taken key *)
RECURSIVE FlushUpsert(_, _)
FlushUpsert(tbl, pending) ==
    IF pending = <<>>
    THEN [ok |-> TRUE, tbl |-> tbl]
    ELSE LET p == Head(pending)
             kept == {r \in tbl : Key(r) # Key(p)}
         IN  FlushUpsert(kept \cup {Row(kept, p)}, Tail(pending))

(* INSERT of the pending objects of one flush, in order; ok is FALSE as    *)
(* soon as one INSERT violates the constraint (the flush raises).          *)
RECURSIVE Flush(_, _)
Flush(tbl, pending) ==
    IF pending = <<>>
    THEN [ok |-> TRUE, tbl |-> tbl]
    ELSE IF ux_points_device_time(tbl, Head(pending))
         THEN Flush(tbl \cup {Row(tbl, Head(pending))}, Tail(pending))
         ELSE [ok |-> FALSE, tbl |-> tbl]

(* the UPDATEs of the session's dirty IngestRaw objects *)
ApplyMarks(tbl, marks) ==
    [i \in 1..Len(tbl) |->
        IF i \in DOMAIN marks
        THEN [tbl[i] EXCEPT !.processed_at = marks[i].processed_at,
                            !.parse_error = marks[i].parse_error]
        ELSE tbl[i]]

Now == Some(1)      \* datetime.now(timezone.utc), abstracted to "set"

-----------------------------------------------------------------------------
(* api/ingest.py upload *)

UploadStatus(body) ==
    IF body.kind = "none" \/ (body.kind = "dict" /\ body.pid.ty = "missing"
                                /\ body.f.ty = "missing")
    THEN 400                                   \* if not data
    ELSE IF body.kind # "dict"
    THEN 500                                   \* data.get raises
    ELSE IF body.pid.ty # "str" \/ body.f.ty # "list"
    THEN 422
    ELSE 200

NewRaw(body) ==
    [device_id |-> body.pid.v,
     payload_json |-> JsonDumps(body.pid.v, body.f.v),
     processed_at |-> None,
     parse_error |-> None]

upload(body) ==
    /\ resp' = UploadStatus(body)
    /\ raw' = IF UploadStatus(body) = 200
              THEN Append(raw, NewRaw(body))
              ELSE raw
    /\ UNCHANGED <<points, dec, tb, others>>

-----------------------------------------------------------------------------
(* workers/parse_worker.py _process_batch_once *)

DecIdle == [pc |-> "idle", rows |-> <<>>, to_insert |-> <<>>,
            marks |-> <<>>, idx |-> 0]

Unprocessed == {i \in 1..Len(raw) : raw[i].processed_at = None}

(* select(IngestRaw).where(processed_at IS NULL).order_by(id).limit(N) *)
RECURSIVE Ascending(_)
Ascending(S) ==
    IF S = {} THEN <<>>
    ELSE LET m == CHOOSE x \in S : \A y \in S : x <= y
         IN  <<m>> \o Ascending(S \ {m})

(* mutant: the select ordered by id descending *)
SelectBatchNewest ==
    LET all == Ascending(Unprocessed)
    IN  SubSeq(all, Len(all) - Min(Len(all), BATCH_SIZE) + 1, Len(all))

(* mutant: the select without its processed_at IS NULL filter *)
SelectBatchAnyRow ==
    LET all == Ascending(1..Len(raw))
    IN  SubSeq(all, 1, Min(Len(all), BATCH_SIZE))

SelectBatch ==
    LET all == Ascending(Unprocessed)
    IN  SubSeq(all, 1, Min(Len(all), BATCH_SIZE))

(* the decode loop: Point objects to insert, in row order *)
RECURSIVE Gather(_)
Gather(rows) ==
    IF rows = <<>>
    THEN <<>>
    ELSE LET r == raw[Head(rows)]
         IN  (IF JsonLoadsRaises(r.payload_json)
              THEN <<>>
              ELSE ConvertAll(r.payload_json.f, r.payload_json.device_id))
             \o Gather(Tail(rows))

(* r.processed_at / r.parse_error as set on the session's objects *)
Marks(rows) ==
    [i \in {rows[k] : k \in 1..Len(rows)} |->
        IF JsonLoadsRaises(raw[i].payload_json)
        THEN [processed_at |-> Now,
              parse_error |-> Some(TruncatedError(raw[i].payload_json))]
        ELSE [processed_at |-> Now, parse_error |-> None]]

Fetch ==
    /\ dec.pc = "idle"
    /\ Unprocessed # {}                        \* if not rows: return 0
    /\ LET rows == SelectBatch
           to_insert == Gather(rows)
       IN  dec' = [pc |-> IF to_insert # <<>> THEN "insert" ELSE "final",
                   rows |-> rows, to_insert |-> to_insert,
                   marks |-> Marks(rows), idx |-> 0]
    /\ UNCHANGED <<raw, points, resp, tb, others>>

(* session.add_all(to_insert); session.commit(): one transaction holding   *)
(* the INSERTs and the UPDATEs of the marked rows.  On an IntegrityError   *)
(* session.rollback() discards the transaction and expires every object,   *)
(* so the pending processed_at / parse_error assignments are gone.         *)
BulkCommit ==
    /\ dec.pc = "insert"
    /\ LET res == Flush(points, dec.to_insert)
       IN  IF res.ok
           THEN /\ points' = res.tbl
                /\ raw' = ApplyMarks(raw, dec.marks)
                /\ dec' = [dec EXCEPT !.pc = "final", !.marks = <<>>]
           ELSE /\ dec' = [dec EXCEPT !.pc = "fallback", !.marks = <<>>,
                                      !.idx = 1]
                /\ UNCHANGED <<raw, points>>
    /\ UNCHANGED <<resp, tb, others>>

(* mutant: the fallback gives up at the first duplicate (break for continue) *)
FallbackInsertAbort ==
    /\ dec.pc = "fallback"
    /\ LET p == dec.to_insert[dec.idx]
           res == Flush(points, <<p>>)
       IN  /\ points' = res.tbl
           /\ dec' = IF dec.idx = Len(dec.to_insert) \/ ~res.ok
                     THEN [dec EXCEPT !.pc = "final"]
                     ELSE [dec EXCEPT !.idx = dec.idx + 1]
    /\ UNCHANGED <<raw, resp, tb, others>>

(* one iteration of the per-row fallback: add, commit, or rollback and     *)
(* continue on a duplicate                                                 *)
FallbackInsert ==
    /\ dec.pc = "fallback"
    /\ LET p == dec.to_insert[dec.idx]
           res == Flush(points, <<p>>)
       IN  /\ points' = res.tbl
           /\ dec' = IF dec.idx = Len(dec.to_insert)
                     THEN [dec EXCEPT !.pc = "final"]
                     ELSE [dec EXCEPT !.idx = dec.idx + 1]
    /\ UNCHANGED <<raw, resp, tb, others>>

(* the closing session.commit(), return len(rows), session.close() *)
FinalCommit ==
    /\ dec.pc = "final"
    /\ raw' = ApplyMarks(raw, dec.marks)
    /\ dec' = DecIdle
    /\ UNCHANGED <<points, resp, tb, others>>

DecoderStep == Fetch \/ BulkCommit \/ FallbackInsert \/ FinalCommit

-----------------------------------------------------------------------------
(* utils/delete_points_by_epoch.py delete_points_by_epoch_range.           *)
(* device_id None or "" means all devices.                                 *)

Matches(r, start_epoch, end_epoch, device_id) ==
    /\ r.t_epoch >= start_epoch
    /\ r.t_epoch <= end_epoch
    /\ (device_id # None /\ The(device_id) # "" => r.device_id = The(device_id))

(* the statement of a destructive run, dry_run=False, whose return value   *)
(* nobody keeps (the command line of the module prints it)                 *)
delete_points_by_epoch_range(start_epoch, end_epoch, device_id) ==
    /\ start_epoch < end_epoch                 \* else ValueError
    /\ points' = {r \in points : ~Matches(r, start_epoch, end_epoch, device_id)}
    /\ points' # points
    /\ UNCHANGED <<raw, dec, resp, tb, others>>

(* mutant: the count taken over every device *)
CountAllDevices(tbl, start_epoch, end_epoch, device_id) ==
    Cardinality({r \in tbl : Matches(r, start_epoch, end_epoch, None)})

(* count = query.count() *)
CountRows(tbl, start_epoch, end_epoch, device_id) ==
    Cardinality({r \in tbl : Matches(r, start_epoch, end_epoch, device_id)})

(* query.delete(synchronize_session="fetch"); session.commit() *)
DeleteRows(tbl, start_epoch, end_epoch, device_id) ==
    {r \in tbl : ~Matches(r, start_epoch, end_epoch, device_id)}

(* a call whose caller keeps the return value, up to the count: the        *)
(* ValueError, or the count, which a dry run returns at once               *)
RetentionCount(start_epoch, end_epoch, device_id, dry_run) ==
    /\ ret.pc # "counted"
    /\ ret' = IF start_epoch >= end_epoch
              THEN RetCall("raised", start_epoch, end_epoch, device_id, dry_run, 0)
              ELSE RetCall(IF dry_run THEN "returned" ELSE "counted",
                           start_epoch, end_epoch, device_id, dry_run,
                           CountRows(points, start_epoch, end_epoch, device_id))
    /\ UNCHANGED <<raw, points, dec, resp, tb, riders, cache, hist, live, up>>

(* the rest of a destructive call: delete, commit, return count *)
RetentionDelete ==
    /\ ret.pc = "counted"
    /\ points' = DeleteRows(points, ret.start_epoch, ret.end_epoch, ret.device_id)
    /\ ret' = [ret EXCEPT !.pc = "returned"]
    /\ UNCHANGED <<raw, dec, resp, tb, riders, cache, hist, live, up>>

-----------------------------------------------------------------------------
(* workers/gpx_worker.py: the live track cache worker *)

(* a race_riders row; the DateTime columns hold the instant as epoch       *)
(* seconds, the *_epoch columns are the integer mirrors the readers use    *)
RaceRider(id, device_id, race_id, start_epoch, finish_epoch) ==
    [id |-> id, device_id |-> device_id, race_id |-> race_id,
     start_time_rfid |-> start_epoch, finish_time_rfid |-> finish_epoch,
     start_time_rfid_epoch |-> start_epoch,
     finish_time_rfid_epoch |-> finish_epoch,
     start_time_pi_epoch |-> None, finish_time_pi_epoch |-> None]

(* the sequences that list every element of S once *)
Orders(S) ==
    {q \in [1..Cardinality(S) -> S] :
        \A i, j \in 1..Cardinality(S) : i # j => q[i] # q[j]}

(* select device_id from points group by device_id, falsy ids dropped; SQL *)
(* promises no order for the groups                                        *)
_distinct_devices == {r.device_id : r \in points} \ {""}

(* select max(t_epoch) from points where device_id = did *)
MaxTEpoch(did) ==
    LET ts == {r.t_epoch : r \in {x \in points : x.device_id = did}}
    IN  IF ts = {} THEN None
        ELSE Some(CHOOSE t \in ts : \A u \in ts : u <= t)

(* last_max_t.get(did, -1) *)
LastMaxT(did) ==
    IF did \in DOMAIN live.last_max_t THEN live.last_max_t[did] ELSE -1

(* mutant: the watermark test dropped, every device rebuilt on every tick *)
AlwaysNewData(tmax, prev) == FALSE

(* if tmax <= prev: continue *)
NoNewData(tmax, prev) == tmax <= prev

(* a race_riders row whose PI marks are set as well *)
WithPi(rr, start_epoch, finish_epoch) ==
    [rr EXCEPT !.start_time_pi_epoch = start_epoch,
               !.finish_time_pi_epoch = finish_epoch]

(* mutant: a device without an entry is given the newest entry there is *)
_newest_race_rider_window(device_id) ==
    LET own == {r \in riders : r.device_id = device_id}
        rows == IF own = {} THEN riders ELSE own
    IN  IF rows = {} THEN None
        ELSE LET row == CHOOSE r \in rows : \A x \in rows : x.id <= r.id
             IN  Some([race_rider_id |-> row.id,
                       start_epoch |-> row.start_time_rfid_epoch,
                       finish_epoch |-> row.finish_time_rfid_epoch])

(* mutant: the window taken from the PI marks where they are set *)
_latest_race_rider_window_pi(device_id) ==
    LET rows == {r \in riders : r.device_id = device_id}
    IN  IF rows = {} THEN None
        ELSE LET row == CHOOSE r \in rows : \A x \in rows : x.id <= r.id
             IN  Some([race_rider_id |-> row.id,
                       start_epoch |-> IF row.start_time_pi_epoch # None
                                       THEN row.start_time_pi_epoch
                                       ELSE row.start_time_rfid_epoch,
                       finish_epoch |-> IF row.finish_time_pi_epoch # None
                                        THEN row.finish_time_pi_epoch
                                        ELSE row.finish_time_rfid_epoch])

(* the row with the highest id among the race_riders of the device, as     *)
(* (race_rider_id, start_epoch, finish_epoch); None when there is none     *)
_latest_race_rider_window(device_id) ==
    LET rows == {r \in riders : r.device_id = device_id}
    IN  IF rows = {} THEN None
        ELSE LET row == CHOOSE r \in rows : \A x \in rows : x.id <= r.id
             IN  Some([race_rider_id |-> row.id,
                       start_epoch |-> row.start_time_rfid_epoch,
                       finish_epoch |-> row.finish_time_rfid_epoch])

(* the parameters build_geojson_for_device declares, and the keywords      *)
(* main passes to it; a keyword the function does not declare raises       *)
(* TypeError at the call, before the function's own try block is entered   *)
BuildParams == {"device_id", "session", "out_dir", "save"}
BuildKeywords == {"device_id", "session", "save", "start_epoch", "finish_epoch"}
CallRaisesTypeError == ~(BuildKeywords \subseteq BuildParams)

(* utils/gpx.py build_geojson_for_device(device_id, session, save=False):  *)
(* every row of the device ordered by t_epoch, no window                   *)
build_geojson_for_device(device_id) ==
    LET rows == {r \in points : r.device_id = device_id}
        ts == Ascending({r.t_epoch : r \in rows})
        at(t) == CHOOSE r \in rows : r.t_epoch = t
    IN  IF rows = {}
        THEN [ok |-> FALSE, geojson |-> None]
        ELSE [ok |-> TRUE,
              geojson |-> Some(
                [type |-> "FeatureCollection",
                 features |->
                   << [type |-> "Feature",
                       properties |-> [device_id |-> device_id,
                                       start_time |-> ts[1]],
                       geometry |->
                         [type |-> "LineString",
                          coordinates |->
                            [i \in 1..Len(ts) |->
                               <<at(ts[i]).lon, at(ts[i]).lat>>]]] >>])]

(* session.get(TrackCache, id); replace geojson or add a row; commit *)
UpsertTrackCache(tbl, race_rider_id, geojson) ==
    {c \in tbl : c.race_rider_id # race_rider_id}
        \cup {[race_rider_id |-> race_rider_id, geojson |-> geojson]}

(* mutant: the handler of the tick's exception records the device as seen *)
OnExceptionMarksSeen(last_max_t, did, tmax) ==
    [d \in DOMAIN last_max_t \cup {did} |->
        IF d = did THEN tmax ELSE last_max_t[d]]

(* except Exception: session.rollback(); print: last_max_t is not touched *)
OnException(last_max_t, did, tmax) == last_max_t

(* session = SessionLocal(); devices = _distinct_devices(session) *)
TickStart ==
    /\ live.pc = "sleep"
    /\ \E q \in Orders(_distinct_devices) :
          live' = [live EXCEPT !.pc = "loop", !.devices = q]
    /\ UNCHANGED <<raw, points, dec, resp, tb, riders, cache, hist, ret, up>>

(* one iteration of `for did in devices` *)
TickDevice ==
    /\ live.pc = "loop"
    /\ live.devices # <<>>
    /\ LET did == Head(live.devices)
           tmax == MaxTEpoch(did)
           prev == LastMaxT(did)
           win == _latest_race_rider_window(did)
           passed == Some([start_epoch |-> The(win).start_epoch,
                           finish_epoch |-> The(win).finish_epoch])
           continue(outcome) ==
               /\ live' = [live EXCEPT !.devices = Tail(live.devices),
                                       !.did = did, !.outcome = outcome]
               /\ cache' = cache
       IN  IF tmax = None
           THEN continue("no_points")
           ELSE IF NoNewData(The(tmax), prev)
           THEN continue("no_new_data")
           ELSE IF win = None
           THEN continue("no_race_rider")
           ELSE IF CallRaisesTypeError
           THEN /\ live' = [LiveIdle(OnException(live.last_max_t, did, The(tmax)),
                                     did, "exception")
                               EXCEPT !.window = passed]
                /\ cache' = cache
           ELSE LET built == build_geojson_for_device(did)
                IN  IF ~built.ok
                    THEN /\ live' = [live EXCEPT !.devices = Tail(live.devices),
                                                  !.did = did,
                                                  !.outcome = "build_failed",
                                                  !.window = passed]
                         /\ cache' = cache
                    ELSE /\ cache' = UpsertTrackCache(cache, The(win).race_rider_id,
                                                      The(built.geojson))
                         /\ live' = [live EXCEPT
                                       !.devices = Tail(live.devices),
                                       !.did = did, !.outcome = "written",
                                       !.window = passed,
                                       !.last_max_t =
                                          [d \in DOMAIN live.last_max_t \cup {did} |->
                                              IF d = did THEN The(tmax)
                                              ELSE live.last_max_t[d]]]
    /\ UNCHANGED <<raw, points, dec, resp, tb, riders, hist, ret, up>>

(* the loop is through: session.close(); time.sleep(SLEEP_SEC) *)
TickEnd ==
    /\ live.pc = "loop"
    /\ live.devices = <<>>
    /\ live' = [live EXCEPT !.pc = "sleep"]
    /\ UNCHANGED <<raw, points, dec, resp, tb, riders, cache, hist, ret, up>>

-----------------------------------------------------------------------------
(* The pipeline *)

InitRaw == {<<>>,
            <<[device_id |-> "d1", payload_json |-> Garbage,
               processed_at |-> None, parse_error |-> None]>>}

(* a request to POST /api/v1/upload; accepted ones stop at MaxRaw rows *)
UploadRequest ==
    \E body \in Bodies :
        /\ UploadStatus(body) = 200 => Len(raw) < MaxRaw
        /\ upload(body)

Init ==
    /\ raw \in InitRaw
    /\ points = {}
    /\ dec = DecIdle
    /\ resp = 0
    /\ tb = TbIdle
    /\ RestIdle

Next ==
    \/ UploadRequest
    \/ Fetch
    \/ BulkCommit
    \/ FallbackInsert
    \/ FinalCommit
    \/ \E s \in 0..MaxEpoch, e \in 0..MaxEpoch, d \in {None} \cup {Some(x) : x \in Devices} :
          delete_points_by_epoch_range(s, e, d)

Spec == Init /\ [][Next]_vars

(* utils/gpx.py: the track builder.  A fix is a dict with "utc", "lat",    *)
(* "lon"; a value is tagged with its Python type: an int n, a float given  *)
(* in tenths, a str holding the decimal text of n, a str that is no        *)
(* number, or None.  Coordinates are counted in millionths of a degree.    *)

UInt(n) == [ty |-> "int", n |-> n]
UFloat(tenths) == [ty |-> "float", n |-> tenths]
UStr(n) == [ty |-> "str", n |-> n]
UText == [ty |-> "text", n |-> 0]
UNone == [ty |-> "none", n |-> 0]

TrackFixes ==
    { [utc |-> UInt(100), lat |-> UInt(1), lon |-> UInt(2)],
      [utc |-> UInt(200), lat |-> UInt(3), lon |-> UInt(4)],
      [utc |-> UInt(300), lat |-> UInt(5), lon |-> UInt(6)],
      [utc |-> UNone, lat |-> UInt(7), lon |-> UInt(8)],
      [utc |-> UStr(200), lat |-> UStr(9), lon |-> UStr(10)],
      [utc |-> UText, lat |-> UInt(11), lon |-> UInt(12)],
      [utc |-> UFloat(1509), lat |-> UInt(13), lon |-> UInt(14)] }

StartBounds == {None, Some(150), Some(200)}
FinishBounds == {None, Some(250), Some(200)}

TrackInputs == UNION {[1..n -> TrackFixes] : n \in 0..MaxTrackLen}

(* int(x): None when it raises (None, text that is no number); a float is  *)
(* truncated toward zero                                                   *)
IntOf(u) ==
    CASE u.ty = "int" -> Some(u.n)
      [] u.ty = "str" -> Some(u.n)
      [] u.ty = "float" -> Some(IF u.n >= 0 THEN u.n \div 10 ELSE -((-u.n) \div 10))
      [] OTHER -> None

(* float(x) of a coordinate given as a number or as its decimal text *)
FloatOf(u) == u.n

(* mutant: the start bound taken as open (<= for <) *)
RECURSIVE TrimOpenStart(_, _, _)
TrimOpenStart(fixes, start_epoch, finish_epoch) ==
    IF fixes = <<>>
    THEN <<>>
    ELSE LET p == Head(fixes)
             t_epoch == IntOf(p.utc)
             rest == TrimOpenStart(Tail(fixes), start_epoch, finish_epoch)
         IN  IF t_epoch = None
             THEN rest
             ELSE IF start_epoch # None /\ The(t_epoch) <= The(start_epoch)
             THEN rest
             ELSE IF finish_epoch # None /\ The(t_epoch) > The(finish_epoch)
             THEN rest
             ELSE <<p>> \o rest

(* the loop of filter_fixes_by_window *)
RECURSIVE Trim(_, _, _)
Trim(fixes, start_epoch, finish_epoch) ==
    IF fixes = <<>>
    THEN <<>>
    ELSE LET p == Head(fixes)
             t_epoch == IntOf(p.utc)
             rest == Trim(Tail(fixes), start_epoch, finish_epoch)
         IN  IF t_epoch = None
             THEN rest                                       \* except: continue
             ELSE IF start_epoch # None /\ The(t_epoch) < The(start_epoch)
             THEN rest
             ELSE IF finish_epoch # None /\ The(t_epoch) > The(finish_epoch)
             THEN rest
             ELSE <<p>> \o rest

(* mutant: no early return when both bounds are absent *)
filter_always_trims(fixes, start_epoch, finish_epoch) ==
    Trim(fixes, start_epoch, finish_epoch)

filter_fixes_by_window(fixes, start_epoch, finish_epoch) ==
    IF start_epoch = None /\ finish_epoch = None
    THEN fixes
    ELSE Trim(fixes, start_epoch, finish_epoch)

(* mutant: coordinates written latitude first *)
geojson_lat_first(fixes) ==
    [type |-> "FeatureCollection",
     features |->
        << [type |-> "Feature",
            properties |-> [src |-> "text_log"],
            geometry |->
               [type |-> "LineString",
                coordinates |->
                   [i \in 1..Len(fixes) |->
                       <<FloatOf(fixes[i].lat), FloatOf(fixes[i].lon)>>]]] >>]

(* _build_geojson_string: the compact JSON text, modelled by the document  *)
(* it denotes                                                              *)
_build_geojson_string(fixes) ==
    [type |-> "FeatureCollection",
     features |->
        << [type |-> "Feature",
            properties |-> [src |-> "text_log"],
            geometry |->
               [type |-> "LineString",
                coordinates |->
                   [i \in 1..Len(fixes) |->
                       <<FloatOf(fixes[i].lon), FloatOf(fixes[i].lat)>>]]] >>]

(* the calls, in the order upload_text makes them: filter, then serialize *)
CallFilter ==
    /\ tb.out = None
    /\ tb' = [tb EXCEPT !.out = Some(filter_fixes_by_window(tb.fixes, tb.s, tb.f))]
    /\ UNCHANGED <<raw, points, dec, resp, others>>

CallGeoJson ==
    /\ tb.out # None
    /\ tb.gj = None
    /\ tb' = [tb EXCEPT !.gj = Some(_build_geojson_string(The(tb.out)))]
    /\ UNCHANGED <<raw, points, dec, resp, others>>

InitTrack ==
    /\ raw = <<>>
    /\ points = {}
    /\ dec = DecIdle
    /\ resp = 0
    /\ tb \in {[fixes |-> fx, s |-> s, f |-> f, out |-> None, gj |-> None] :
                 fx \in TrackInputs, s \in StartBounds, f \in FinishBounds}
    /\ RestIdle

NextTrack == CallFilter \/ CallGeoJson

SpecTrack == InitTrack /\ [][NextTrack]_vars

-----------------------------------------------------------------------------
(* The archive: api/ingest.py upload_text, web/races.py manual_times.      *)
(* A text log is the sequence of its non-blank lines; a line is either no  *)
(* JSON object ("garbage") or an object with its utc, lat and lon values.  *)

Line(utc, lat, lon) == [kind |-> "obj", utc |-> utc, lat |-> lat, lon |-> lon]
BadLine == [kind |-> "garbage", utc |-> UNone, lat |-> UNone, lon |-> UNone]

LogA == << Line(UInt(100), UInt(1), UInt(2)),
           Line(UInt(200), UInt(3), UInt(4)),
           Line(UInt(300), UInt(5), UInt(6)) >>
LogB == << BadLine,
           Line(UInt(200), UInt(3), UInt(4)),
           Line(UInt(0), UInt(5), UInt(6)) >>            \* zeroed utc
LogText == << Line(UText, UInt(11), UInt(12)),           \* "utc": "n/a"
              Line(UInt(200), UInt(3), UInt(4)) >>
LogNone == << BadLine >>

TextLogs == {LogA, LogB, LogText, LogNone}

(* x in (None, 0, 0.0) *)
NoneOrZero(u) == u.ty = "none" \/ (u.ty \in {"int", "float"} /\ u.n = 0)

(* utils/gpx.py _parse_text_fixes *)
RECURSIVE _parse_text_fixes(_)
_parse_text_fixes(raw_text) ==
    IF raw_text = <<>>
    THEN <<>>
    ELSE LET obj == Head(raw_text)
             tail == _parse_text_fixes(Tail(raw_text))
         IN  IF obj.kind # "obj"
             THEN tail                                   \* except: continue
             ELSE IF NoneOrZero(obj.utc) \/ NoneOrZero(obj.lat) \/ NoneOrZero(obj.lon)
             THEN tail
             ELSE <<[utc |-> obj.utc, lat |-> obj.lat, lon |-> obj.lon]>> \o tail

(* _build_gpx_string raises when int(p["utc"]) or float(p["lat"]),         *)
(* float(p["lon"]) raises                                                  *)
FloatRaises(u) == u.ty \in {"text", "none"}

GpxRaises(fixes) ==
    \E i \in 1..Len(fixes) :
        \/ IntOf(fixes[i].utc) = None
        \/ FloatRaises(fixes[i].lat)
        \/ FloatRaises(fixes[i].lon)

(* utils/gpx.py _build_gpx_string: the GPX text, by the document it denotes *)
_build_gpx_string(fixes, creator) ==
    [creator |-> creator,
     time |-> The(IntOf(fixes[1].utc)),
     trkpt |-> [i \in 1..Len(fixes) |->
                   [lat |-> FloatOf(fixes[i].lat), lon |-> FloatOf(fixes[i].lon),
                    time |-> The(IntOf(fixes[i].utc))]]]

TrackHist(race_rider_id, trimmed, creator, raw_txt) ==
    [race_rider_id |-> race_rider_id,
     geojson |-> _build_geojson_string(trimmed),
     gpx |-> _build_gpx_string(trimmed, creator),
     raw_txt |-> raw_txt]

(* race_riders of the device, ascending by id *)
RaceRiderRows(device_id) ==
    LET ids == Ascending({r.id : r \in {x \in riders : x.device_id = device_id}})
    IN  [k \in 1..Len(ids) |-> CHOOSE r \in riders : r.id = ids[k]]

HistIds == {hist[k].race_rider_id : k \in 1..Len(hist)}

(* mutant: every entry of the device is rebuilt on every upload *)
TargetAll(rr_id, latest_race_rider_id, existing_track_hist_ids) == TRUE

(* rr_id == latest_race_rider_id or rr_id not in existing_track_hist_ids *)
IsTarget(rr_id, latest_race_rider_id, existing_track_hist_ids) ==
    rr_id = latest_race_rider_id \/ rr_id \notin existing_track_hist_ids

(* mutant: every target is filtered by the window of the last target, the  *)
(* device's highest-id entry                                               *)
RECURSIVE ArchiveTargetsOneWindow(_, _, _, _)
ArchiveTargetsOneWindow(target_rows, fixes, device_id, raw_fixes) ==
    IF target_rows = <<>>
    THEN [raised |-> FALSE, added |-> <<>>]
    ELSE LET r == Head(target_rows)
             last == target_rows[Len(target_rows)]
             filtered == filter_fixes_by_window(fixes, last.start_time_rfid_epoch,
                                                last.finish_time_rfid_epoch)
             tail == ArchiveTargetsOneWindow(Tail(target_rows), fixes, device_id,
                                             raw_fixes)
         IN  IF filtered = <<>>
             THEN tail
             ELSE IF GpxRaises(filtered)
             THEN [raised |-> TRUE, added |-> <<>>]
             ELSE [raised |-> tail.raised,
                   added |-> IF tail.raised THEN <<>>
                             ELSE <<TrackHist(r.id, filtered, device_id, raw_fixes)>>
                                  \o tail.added]

(* mutant: a target whose window keeps no fix ends the loop (break for     *)
(* continue)                                                               *)
RECURSIVE ArchiveTargetsMissStops(_, _, _, _)
ArchiveTargetsMissStops(target_rows, fixes, device_id, raw_fixes) ==
    IF target_rows = <<>>
    THEN [raised |-> FALSE, added |-> <<>>]
    ELSE LET r == Head(target_rows)
             filtered == filter_fixes_by_window(fixes, r.start_time_rfid_epoch,
                                                r.finish_time_rfid_epoch)
             tail == ArchiveTargetsMissStops(Tail(target_rows), fixes, device_id,
                                             raw_fixes)
         IN  IF filtered = <<>>
             THEN [raised |-> FALSE, added |-> <<>>]
             ELSE IF GpxRaises(filtered)
             THEN [raised |-> TRUE, added |-> <<>>]
             ELSE [raised |-> tail.raised,
                   added |-> IF tail.raised THEN <<>>
                             ELSE <<TrackHist(r.id, filtered, device_id, raw_fixes)>>
                                  \o tail.added]

(* step 9 of upload_text over the target rows in order: the TrackHist       *)
(* objects added to the session, and whether a builder raised              *)
RECURSIVE ArchiveTargets(_, _, _, _)
ArchiveTargets(target_rows, fixes, device_id, raw_fixes) ==
    IF target_rows = <<>>
    THEN [raised |-> FALSE, added |-> <<>>]
    ELSE LET r == Head(target_rows)
             filtered == filter_fixes_by_window(fixes, r.start_time_rfid_epoch,
                                                r.finish_time_rfid_epoch)
             tail == ArchiveTargets(Tail(target_rows), fixes, device_id, raw_fixes)
         IN  IF filtered = <<>>
             THEN tail                                   \* if not filtered: continue
             ELSE IF GpxRaises(filtered)
             THEN [raised |-> TRUE, added |-> <<>>]
             ELSE [raised |-> tail.raised,
                   added |-> IF tail.raised THEN <<>>
                             ELSE <<TrackHist(r.id, filtered, device_id, raw_fixes)>>
                                  \o tail.added]

(* a body of POST /api/v1/upload-text: pid "" stands for a missing or      *)
(* empty pid; log is the text, or None when the key is missing             *)
TextBody(pid, log) == [pid |-> pid, log |-> log]

upload_text(body) ==
    LET device_id == body.pid
        raw_fixes == The(body.log)
        fixes == _parse_text_fixes(raw_fixes)
        race_rider_rows == IF device_id # "" THEN RaceRiderRows(device_id) ELSE <<>>
        latest_race_rider_id == race_rider_rows[Len(race_rider_rows)].id
        IsTargetRow(r) == IsTarget(r.id, latest_race_rider_id, HistIds)
        target_rows == SelectSeq(race_rider_rows, IsTargetRow)
        res == ArchiveTargets(target_rows, fixes, device_id, raw_fixes)
    IN  /\ IF body.log = None
           THEN resp' = 500 /\ hist' = hist              \* None.splitlines()
           ELSE IF fixes = <<>>
           THEN resp' = 422 /\ hist' = hist
           ELSE IF race_rider_rows = <<>>
           THEN resp' = 200 /\ hist' = hist
           ELSE IF res.raised
           THEN resp' = 500 /\ hist' = hist              \* session closed, no commit
           ELSE resp' = 200 /\ hist' = hist \o res.added
        /\ UNCHANGED <<raw, points, dec, tb, riders, cache, live, ret, up>>

(* a start_time / end_time of the manual-times body: empty or missing,     *)
(* text that is no ISO 8601 time, or a time, given by its epoch seconds    *)
NoTime == [kind |-> "empty", t |-> 0]
BadTime == [kind |-> "bad", t |-> 0]
IsoTime(t) == [kind |-> "iso", t |-> t]

(* _parse_iso, then int(dt.timestamp()) *)
_parse_iso(x) == IF x.kind = "iso" THEN Some(x.t) ELSE None

(* mutant: the rebuild trims by the epoch columns stored on the entry *)
StoredWindow(rr, start_dt, end_dt) ==
    [start_epoch |-> rr.start_time_rfid_epoch,
     finish_epoch |-> rr.finish_time_rfid_epoch]

(* start_epoch = int(start_dt.timestamp()) if start_dt else None, and the  *)
(* same for finish_epoch                                                   *)
RebuildWindow(rr, start_dt, end_dt) ==
    [start_epoch |-> start_dt, finish_epoch |-> end_dt]

(* mutant: the rebuilt track replaces the entry's latest track_hist row *)
StoreRebuiltInPlace(tbl, latest, row) == [tbl EXCEPT ![latest] = row]

(* session.add(TrackHist(...)) *)
StoreRebuilt(tbl, latest, row) == Append(tbl, row)

manual_times(race_id, race_rider_id, start_time, end_time) ==
    LET start_dt == _parse_iso(start_time)
        end_dt == _parse_iso(end_time)
        found == {r \in riders : r.race_id = race_id /\ r.id = race_rider_id}
        rr == CHOOSE r \in found : TRUE
        updated == (riders \ {rr}) \cup
                   {[rr EXCEPT !.start_time_rfid = start_dt,
                               !.finish_time_rfid = end_dt]}
        mine == {k \in 1..Len(hist) : hist[k].race_rider_id = race_rider_id}
        latest == CHOOSE k \in mine : \A j \in mine : j <= k
        fixes == _parse_text_fixes(hist[latest].raw_txt)
        win == RebuildWindow(rr, start_dt, end_dt)
        trimmed == filter_fixes_by_window(fixes, win.start_epoch, win.finish_epoch)
    IN  /\ IF start_time.kind = "bad" \/ end_time.kind = "bad"
           THEN resp' = 400 /\ UNCHANGED <<riders, hist>>
           ELSE IF found = {}
           THEN resp' = 404 /\ UNCHANGED <<riders, hist>>
           ELSE IF mine = {} \/ hist[latest].raw_txt = <<>> \/ trimmed = <<>>
           THEN resp' = 200 /\ riders' = updated /\ hist' = hist
           ELSE IF GpxRaises(trimmed)
           THEN resp' = 500 /\ UNCHANGED <<riders, hist>>     \* no commit
           ELSE /\ resp' = 200
                /\ riders' = updated
                /\ hist' = StoreRebuilt(hist, latest,
                              TrackHist(race_rider_id, trimmed, rr.device_id,
                                        hist[latest].raw_txt))
        /\ UNCHANGED <<raw, points, dec, tb, cache, live, ret, up>>

-----------------------------------------------------------------------------
(* The live cache worker beside the decoder: the worker starts with        *)
(* telemetry already decoded, one payload waiting in ingest_raw and the    *)
(* race entries the operators made; the retention utility may run.         *)

Decoded(device_id, fixes) == ConvertAll(fixes, device_id)

LiveTables ==
    { {},
      Flush({}, Decoded("d1", <<FixA>>)).tbl,
      Flush({}, Decoded("d1", <<FixA>>) \o Decoded("d2", <<FixNeg>>)).tbl,
      Flush({}, Decoded("d2", <<FixA>>) \o Decoded("", <<FixB>>)).tbl,
      Flush({}, Decoded("d1", <<FixA>>) \o Decoded("d2", <<FixB>>)).tbl }

LiveRiders ==
    { {},
      {RaceRider(1, "d1", 1, None, None)},
      {RaceRider(1, "d1", 1, Some(1), Some(1)),
       RaceRider(2, "d1", 1, Some(2), None),
       RaceRider(3, "d2", 1, None, None)},
      {WithPi(RaceRider(1, "d1", 1, Some(1), None), Some(0), Some(2)),
       RaceRider(2, "d2", 1, None, Some(2))} }

InitLive ==
    /\ raw = <<NewRaw(Body(Str("d1"), List(<<FixA2, FixB>>)))>>
    /\ points \in LiveTables
    /\ dec = DecIdle
    /\ resp = 0
    /\ tb = TbIdle
    /\ riders \in LiveRiders
    /\ cache = {}
    /\ hist = <<>>
    /\ live = LiveIdle(NoWatermark, "", "none")
    /\ ret = RetNone
    /\ up = UpNone

NextLive ==
    \/ TickStart
    \/ TickDevice
    \/ TickEnd
    \/ Fetch
    \/ BulkCommit
    \/ FallbackInsert
    \/ FinalCommit
    \/ \E s \in 0..MaxEpoch, e \in 0..MaxEpoch :
          delete_points_by_epoch_range(s, e, None)

SpecLive == InitLive /\ [][NextLive]_vars

(* gpx_worker.main: while True: ... time.sleep(SLEEP_SEC): the loop never  *)
(* stops, and an iteration that is started ends                            *)
FairLive == SpecLive /\ WF_vars(TickStart \/ TickDevice \/ TickEnd)

-----------------------------------------------------------------------------
(* The archive: text logs are uploaded and timing marks corrected, in any  *)
(* order.  The race entries are the operators'; entry 1 of the shared      *)
(* device may hold the archive of an upload made when it was the device's  *)
(* only entry.                                                             *)

EntryA == RaceRider(1, "d1", 1, Some(150), Some(250))
EntryB == RaceRider(2, "d1", 1, None, None)

ArchInit ==
    { [riders |-> {EntryA, EntryB}, hist |-> <<>>],
      [riders |-> {EntryA, EntryB},
       hist |-> <<TrackHist(1, filter_fixes_by_window(_parse_text_fixes(LogA),
                                                      Some(150), Some(250)),
                            "d1", LogA)>>],
      [riders |-> {RaceRider(1, "d1", 1, None, Some(50)),   \* a window before the log
                   RaceRider(2, "d2", 2, Some(150), None)},
       hist |-> <<>>] }

TextBodies ==
    {TextBody("d1", Some(log)) : log \in TextLogs}
        \cup {TextBody("d2", Some(LogA)), TextBody("", Some(LogA)),
              TextBody("d1", None)}

(* start_time and end_time of a correction *)
ManualTimes ==
    { <<NoTime, IsoTime(250)>>, <<NoTime, IsoTime(50)>>, <<IsoTime(150), NoTime>>,
      <<NoTime, NoTime>>, <<NoTime, BadTime>> }

(* requests stop once track_hist holds MaxHist rows *)
UploadTextRequest ==
    /\ \E body \in TextBodies : upload_text(body)
    /\ Len(hist') <= MaxHist

ManualTimesRequest ==
    /\ \E race_id \in 1..2, race_rider_id \in 1..MaxEntries, t \in ManualTimes :
          manual_times(race_id, race_rider_id, t[1], t[2])
    /\ Len(hist') <= MaxHist

InitArchive ==
    /\ raw = <<>>
    /\ points = {}
    /\ dec = DecIdle
    /\ resp = 0
    /\ tb = TbIdle
    /\ \E c \in ArchInit : riders = c.riders /\ hist = c.hist
    /\ cache = {}
    /\ live = LiveIdle(NoWatermark, "", "none")
    /\ ret = RetNone
    /\ up = UpNone

NextArchive ==
    \/ UploadTextRequest
    \/ ManualTimesRequest

SpecArchive == InitArchive /\ [][NextArchive]_vars

-----------------------------------------------------------------------------
(* The archive of a shared device whose first entry finished before any    *)
(* log begins: the window of entry 1 keeps no fix of any upload, entry 2   *)
(* has no marks yet.                                                       *)

EarlyEntry == RaceRider(1, "d1", 1, None, Some(50))
OpenEntry == RaceRider(2, "d1", 1, None, None)

InitMiss ==
    /\ raw = <<>>
    /\ points = {}
    /\ dec = DecIdle
    /\ resp = 0
    /\ tb = TbIdle
    /\ riders = {EarlyEntry, OpenEntry}
    /\ cache = {}
    /\ hist = <<>>
    /\ live = LiveIdle(NoWatermark, "", "none")
    /\ ret = RetNone
    /\ up = UpNone

NextMiss ==
    \/ UploadTextRequest
    \/ ManualTimesRequest

SpecMiss == InitMiss /\ [][NextMiss]_vars

-----------------------------------------------------------------------------
(* Entries are made and corrected while the live cache worker polls and no *)
(* telemetry arrives: web/races.py add_race_rider and manual_times beside  *)
(* gpx_worker, over a points table that stays as it is.                    *)

(* the id the database gives the next race_riders row *)
NextEntryId ==
    IF riders = {} THEN 1
    ELSE 1 + (CHOOSE n \in {r.id : r \in riders} : \A r \in riders : r.id <= n)

(* rr = RaceRider(rider_id, device_id, category_id, active, recording):    *)
(* the entry has no marks; the answer is the redirect to the race page     *)
add_race_rider(race_id, device_id) ==
    /\ riders' = riders \cup {RaceRider(NextEntryId, device_id, race_id, None, None)}
    /\ resp' = 302
    /\ UNCHANGED <<raw, points, dec, tb, cache, hist, live, ret, up>>

AssignTables ==
    { Flush({}, Decoded("d1", <<FixA>>)).tbl,
      Flush({}, Decoded("d1", <<FixA, FixB>>) \o Decoded("d2", <<FixB>>)).tbl }

AssignRiders == { {}, {RaceRider(1, "d1", 1, Some(1), None)} }

InitAssign ==
    /\ raw = <<>>
    /\ points \in AssignTables
    /\ dec = DecIdle
    /\ resp = 0
    /\ tb = TbIdle
    /\ riders \in AssignRiders
    /\ cache = {}
    /\ hist = <<>>
    /\ live = LiveIdle(NoWatermark, "", "none")
    /\ ret = RetNone
    /\ up = UpNone

(* entries are added until there are MaxEntries of them *)
NextAssign ==
    \/ TickStart
    \/ TickDevice
    \/ TickEnd
    \/ /\ Cardinality(riders) < MaxEntries
       /\ \E device_id \in Devices : add_race_rider(1, device_id)
    \/ ManualTimesRequest

SpecAssign == InitAssign /\ [][NextAssign]_vars

FairAssign == SpecAssign /\ WF_vars(TickStart \/ TickDevice \/ TickEnd)

-----------------------------------------------------------------------------
(* Text-log uploads in flight together.  upload_text opens a session for   *)
(* each of its three accesses to the database, so a request is three       *)
(* steps, and the steps of requests served at the same time interleave.    *)
(* up[i] is request i: its body, what it has read, and its position.       *)

UpIdle ==
    [pc |-> "idle", body |-> TextBody("", None), race_rider_rows |-> <<>>,
     existing_track_hist_ids |-> {}, status |-> 0]

(* steps 1 to 5: the body is parsed and the entries of the device read *)
UploadTextBegin(i) ==
    /\ up[i].pc = "idle"
    /\ \E body \in TextBodies :
          LET fixes == _parse_text_fixes(The(body.log))
              rows == IF body.pid # "" THEN RaceRiderRows(body.pid) ELSE <<>>
              answer(status) ==
                  /\ up' = [up EXCEPT ![i] = [UpIdle EXCEPT !.pc = "done",
                                                            !.body = body,
                                                            !.status = status]]
                  /\ resp' = status
          IN  IF body.log = None
              THEN answer(500)                          \* None.splitlines()
              ELSE IF fixes = <<>>
              THEN answer(422)
              ELSE IF rows = <<>>
              THEN answer(200)
              ELSE /\ up' = [up EXCEPT ![i] = [UpIdle EXCEPT !.pc = "rows",
                                                             !.body = body,
                                                             !.race_rider_rows = rows]]
                   /\ resp' = resp
    /\ UNCHANGED <<raw, points, dec, tb, riders, cache, hist, live, ret>>

(* step 7: the ids among them that have a track_hist row *)
UploadTextExisting(i) ==
    /\ up[i].pc = "rows"
    /\ up' = [up EXCEPT ![i].pc = "ids",
                        ![i].existing_track_hist_ids =
                            HistIds \cap {up[i].race_rider_rows[k].id :
                                             k \in 1..Len(up[i].race_rider_rows)}]
    /\ UNCHANGED <<raw, points, dec, resp, tb, riders, cache, hist, live, ret>>

(* steps 6, 8 and 9: the targets are chosen from what was read, their      *)
(* tracks built and added, and the session committed                       *)
UploadTextStore(i) ==
    /\ up[i].pc = "ids"
    /\ LET rows == up[i].race_rider_rows
           body == up[i].body
           latest_race_rider_id == rows[Len(rows)].id
           IsTargetRow(r) == IsTarget(r.id, latest_race_rider_id,
                                      up[i].existing_track_hist_ids)
           target_rows == SelectSeq(rows, IsTargetRow)
           res == ArchiveTargets(target_rows, _parse_text_fixes(The(body.log)),
                                 body.pid, The(body.log))
           status == IF res.raised THEN 500 ELSE 200
       IN  /\ hist' = IF res.raised THEN hist ELSE hist \o res.added
           /\ resp' = status
           /\ up' = [up EXCEPT ![i].pc = "done", ![i].status = status]
    /\ UNCHANGED <<raw, points, dec, tb, riders, cache, live, ret>>

InitUploads ==
    /\ raw = <<>>
    /\ points = {}
    /\ dec = DecIdle
    /\ resp = 0
    /\ tb = TbIdle
    /\ \E c \in ArchInit : riders = c.riders /\ hist = c.hist
    /\ cache = {}
    /\ live = LiveIdle(NoWatermark, "", "none")
    /\ ret = RetNone
    /\ up = [i \in 1..MaxUploads |-> UpIdle]

NextUploads ==
    \/ \E i \in 1..MaxUploads : UploadTextBegin(i)
    \/ \E i \in 1..MaxUploads : UploadTextExisting(i)
    \/ \E i \in 1..MaxUploads : UploadTextStore(i)

SpecUploads == InitUploads /\ [][NextUploads]_vars

-----------------------------------------------------------------------------
(* api/ingest.py upload_timing: the timing marker endpoint *)

(* request.get_json(silent=True) of a body that is no JSON *)
NoJson == [kind |-> "none"]

(* a JSON object; epoch is a tagged value, device_id, phase and source     *)
(* are None for null or a missing key and Some(string) otherwise           *)
TimingBody(epoch, device_id, phase, source) ==
    [kind |-> "dict", epoch |-> epoch, device_id |-> device_id,
     phase |-> phase, source |-> source]

(* str.strip() and str.lower() on the strings of the requests below *)
Strip(s) ==
    CASE s = " d1 " -> "d1"
      [] s = " " -> ""
      [] s = " Finish " -> "Finish"
      [] OTHER -> s

Lower(s) ==
    CASE s = "Finish" -> "finish"
      [] s = "RFID" -> "rfid"
      [] OTHER -> s

(* (data.get(key) or "").strip().lower() *)
Flag(v) == IF v = None THEN "" ELSE Lower(Strip(The(v)))

TimingStatus(data) ==
    IF data.kind = "none" THEN 400
    ELSE IF data.epoch.ty # "int" THEN 422
    ELSE IF data.device_id = None \/ Strip(The(data.device_id)) = "" THEN 422
    ELSE IF Flag(data.phase) \notin {"start", "finish"} THEN 422
    ELSE IF Flag(data.source) \notin {"pi", "rfid"} THEN 422
    ELSE 200

(* the handler answers and writes nothing: persistence is a TODO *)
upload_timing(data) ==
    /\ resp' = TimingStatus(data)
    /\ UNCHANGED <<raw, points, dec, tb, riders, cache, hist, live, ret, up>>

-----------------------------------------------------------------------------
(* Everything that runs beside the archive: one text log is uploaded and   *)
(* entry 1 corrected while the decoder works on a waiting payload and the  *)
(* live cache worker polls.                                                *)

UploadTextLogA ==
    /\ upload_text(TextBody("d1", Some(LogA)))
    /\ Len(hist') <= MaxHist

ManualTimesEntryA ==
    /\ \E end_time \in {IsoTime(50), IsoTime(250)} :
          manual_times(1, 1, NoTime, end_time)
    /\ Len(hist') <= MaxHist

TimingBodies ==
    { NoJson,
      TimingBody(UInt(100), Some("d1"), Some("start"), Some("rfid")),
      TimingBody(UInt(300), Some(" d1 "), Some(" Finish "), Some("RFID")),
      TimingBody(UInt(100), Some("d1"), Some("start"), Some("pi")),
      TimingBody(UNone, Some("d1"), Some("start"), Some("rfid")),
      TimingBody(UInt(100), Some(" "), Some("start"), Some("rfid")),
      TimingBody(UInt(100), Some("d1"), None, Some("rfid")),
      TimingBody(UInt(100), Some("d1"), Some("start"), Some("gps")) }

InitAll ==
    /\ raw = <<NewRaw(Body(Str("d1"), List(<<FixA>>)))>>
    /\ points = {}
    /\ dec = DecIdle
    /\ resp = 0
    /\ tb = TbIdle
    /\ riders = {EntryA, EntryB}
    /\ cache = {}
    /\ hist = <<>>
    /\ live = LiveIdle(NoWatermark, "", "none")
    /\ ret = RetNone
    /\ up = UpNone

NextAll ==
    \/ \E data \in TimingBodies : upload_timing(data)
    \/ UploadTextLogA
    \/ ManualTimesEntryA
    \/ Fetch
    \/ BulkCommit
    \/ FinalCommit
    \/ TickStart
    \/ TickDevice
    \/ TickEnd

SpecAll == InitAll /\ [][NextAll]_vars

-----------------------------------------------------------------------------
(* The decoder working through stored payloads, several to a batch, while  *)
(* more arrive.                                                            *)

Processed(row) == [row EXCEPT !.processed_at = Now]

GarbageRow ==
    [device_id |-> "d1", payload_json |-> Garbage,
     processed_at |-> None, parse_error |-> None]

BatchRaws ==
    { << GarbageRow,
         NewRaw(Body(Str("d1"), List(<<FixA2, FixB>>))),
         NewRaw(Body(Str("d1"), List(<<FixNoLat, FixShort, FixNoUtc, FixA>>))) >>,
      << Processed(NewRaw(Body(Str("d1"), List(<<FixB>>)))),
         GarbageRow,
         NewRaw(Body(Str("d2"), List(<<FixA, FixNoLat, FixA2>>))),
         NewRaw(Body(Str("d1"), List(<<FixB>>))) >>,
      << NewRaw(Body(Str("pi-1"), List(<<FixPi1>>))),
         NewRaw(Body(Str("d1"), List(<<FixNoUtc, FixB, FixShort>>))),
         GarbageRow >> }

BatchBodies ==
    { Body(Str("d1"), List(<<FixA>>)),
      Body(Str("d2"), List(<<FixNoLat, FixB>>)) }

UploadMore ==
    /\ Len(raw) <= MaxRaw + BATCH_SIZE
    /\ \E body \in BatchBodies : upload(body)

InitBatch ==
    /\ raw \in BatchRaws
    /\ points = {}
    /\ dec = DecIdle
    /\ resp = 0
    /\ tb = TbIdle
    /\ RestIdle

NextBatch ==
    \/ UploadMore
    \/ Fetch
    \/ BulkCommit
    \/ FallbackInsert
    \/ FinalCommit

SpecBatch == InitBatch /\ [][NextBatch]_vars

-----------------------------------------------------------------------------
(* The retention utility called from Python (as tests/                     *)
(* delete_points_from_points_table_call_function.py does, a dry run and    *)
(* then the delete) while the decoder works on a waiting payload.          *)

RetTables ==
    { Flush({}, Decoded("d2", <<FixA, FixB>>)).tbl,
      Flush({}, Decoded("d1", <<FixB>>) \o Decoded("d2", <<FixA>>)
                   \o Decoded("", <<FixB>>)).tbl }

RetDevices == {None, Some("d1"), Some("d2"), Some("")}

InitRetention ==
    /\ raw = <<NewRaw(Body(Str("d1"), List(<<FixA>>)))>>
    /\ points \in RetTables
    /\ dec = DecIdle
    /\ resp = 0
    /\ tb = TbIdle
    /\ riders = {EntryA}
    /\ cache = {}
    /\ hist = <<TrackHist(1, _parse_text_fixes(LogB), "d1", LogB)>>
    /\ live = LiveIdle(NoWatermark, "", "none")
    /\ ret = RetNone
    /\ up = UpNone

NextRetention ==
    \/ \E start_epoch \in 0..MaxEpoch, end_epoch \in 0..MaxEpoch,
          device_id \in RetDevices, dry_run \in BOOLEAN :
          RetentionCount(start_epoch, end_epoch, device_id, dry_run)
    \/ RetentionDelete
    \/ Fetch
    \/ BulkCommit
    \/ FinalCommit

SpecRetention == InitRetention /\ [][NextRetention]_vars

-----------------------------------------------------------------------------
(* The scenario of one payload submitted over and over: the first upload  *)
(* is any accepted body, every later one repeats it; the decoder runs.     *)
UploadSame ==
    \E body \in ValidBodies \cup {EmptyPidBody} :
        /\ Len(raw) < MaxCopies
        /\ raw # <<>> => NewRaw(body).payload_json = raw[1].payload_json
        /\ upload(body)

InitIdem ==
    /\ raw = <<>>
    /\ points = {}
    /\ dec = DecIdle
    /\ resp = 0
    /\ tb = TbIdle
    /\ RestIdle

NextIdem ==
    \/ UploadSame
    \/ Fetch
    \/ BulkCommit
    \/ FallbackInsert
    \/ FinalCommit

SpecIdem == InitIdem /\ [][NextIdem]_vars

(* parse_worker.main: while True: _process_batch_once() never stops polling *)
FairIdem == SpecIdem /\ WF_vars(DecoderStep)

-----------------------------------------------------------------------------
(* Properties *)

Keys(tbl) == {Key(r) : r \in tbl}
ValuesOf(tbl) == {Values(r) : r \in tbl}
IsProcessed(i) == i <= Len(raw) /\ raw[i].processed_at # None
BatchIds == {dec.rows[k] : k \in 1..Len(dec.rows)}

(* C1: the points table holds at most one row per (device_id, t_epoch) in  *)
(* every reachable state, and no step replaces a stored row by another row *)
(* of the same key: a row stays as it is or its key leaves the table.      *)
C1_UniqueFirstWriteWins ==
    /\ [](\A r1, r2 \in points : Key(r1) = Key(r2) => r1 = r2)
    /\ [][\A r \in points : r \in points' \/ Key(r) \notin Keys(points')]_vars

(* C1 witness: a batch has reached its closing commit with a decoded fix   *)
(* whose key is stored with other values.                                  *)
C1_Witness ==
    /\ dec.pc = "final"
    /\ \E k \in 1..Len(dec.to_insert) : \E r \in points :
          /\ Key(r) = Key(dec.to_insert[k])
          /\ Values(r) # dec.to_insert[k]

(* C2: when a batch completes (the closing commit returns), every row the  *)
(* batch fetched has processed_at set.                                     *)
C2_BatchMarksEveryRow ==
    [][(dec.pc = "final" /\ dec'.pc = "idle")
          => \A i \in BatchIds : raw'[i].processed_at # None]_vars

(* C3: every stored ingest_raw row is eventually marked processed. *)
C3_EveryRowEventuallyProcessed ==
    \A i \in 1..MaxCopies : (Len(raw) >= i) ~> IsProcessed(i)

(* C4: the table a single submission of the payload leaves: its decoded    *)
(* fixes inserted in order into an empty table, duplicates skipped.        *)
RECURSIVE OnceTable(_, _)
OnceTable(tbl, pending) ==
    IF pending = <<>> THEN tbl
    ELSE OnceTable(Flush(tbl, <<Head(pending)>>).tbl, Tail(pending))

Once(text) == OnceTable({}, ConvertAll(text.f, text.device_id))

(* C4: with one payload submitted any number of times, once the inserts of *)
(* a batch are done the points table holds exactly the rows a single       *)
(* submission leaves (same values, same number of rows); every accepted    *)
(* submission adds exactly one ingest_raw row.                             *)
C4_Idempotent ==
    /\ []((/\ Len(raw) >= 1
           /\ \/ dec.pc = "final"
              \/ dec.pc = "idle" /\ (points # {} \/ \E i \in 1..Len(raw) : IsProcessed(i)))
          => /\ ValuesOf(points) = ValuesOf(Once(raw[1].payload_json))
             /\ Cardinality(points) = Cardinality(Once(raw[1].payload_json)))
    /\ [][\A body \in Bodies :
             (UploadStatus(body) = 200 /\ upload(body))
                => /\ Len(raw') = Len(raw) + 1
                   /\ \A i \in 1..Len(raw) : raw'[i] = raw[i]
                   /\ raw'[Len(raw')].payload_json = raw'[1].payload_json
                   /\ raw'[Len(raw')].processed_at = None]_vars

(* C4 witness: the second of two equal submissions has been decoded. *)
C4_Witness ==
    /\ Len(raw) >= 2
    /\ raw[1].payload_json = raw[2].payload_json
    /\ dec.pc = "final"
    /\ 2 \in BatchIds
    /\ points # {}

(* C5: in the per-row fallback every decoded fix of the batch is tried in  *)
(* turn; a fix whose key is free is inserted with its values, a fix whose  *)
(* key is taken leaves the table as it is, and the loop goes on to the     *)
(* closing commit only after the last fix.                                 *)
C5_FallbackInsertsTheRest ==
    [][/\ (dec.pc = "insert" /\ dec'.pc = "fallback") => dec'.idx = 1
       /\ (dec.pc = "fallback" /\ dec' # dec) =>
            LET p == dec.to_insert[dec.idx]
            IN  /\ IF Key(p) \notin Keys(points)
                   THEN \E r \in points' : /\ Values(r) = p
                                           /\ r \notin points
                                           /\ points' = points \cup {r}
                   ELSE points' = points
                /\ IF dec.idx < Len(dec.to_insert)
                   THEN dec'.pc = "fallback" /\ dec'.idx = dec.idx + 1
                   ELSE dec'.pc = "final"]_vars

(* C5 witness: a fallback has finished having inserted one fix of the      *)
(* batch and skipped another whose key was taken.                          *)
C5_Witness ==
    /\ dec.pc = "final"
    /\ \E i \in BatchIds : ~IsProcessed(i)
    /\ \E j, k \in 1..Len(dec.to_insert) :
          /\ dec.to_insert[j] \in ValuesOf(points)
          /\ dec.to_insert[k] \notin ValuesOf(points)
          /\ Key(dec.to_insert[k]) \in Keys(points)

(* C6: no step removes an ingest_raw row, changes its device_id or         *)
(* payload_json, or sets a set processed_at back to None; and a batch      *)
(* fetches only rows whose processed_at is None.                           *)
C6_NoReprocessing ==
    [][/\ Len(raw') >= Len(raw)
       /\ \A i \in 1..Len(raw) :
            /\ raw'[i].device_id = raw[i].device_id
            /\ raw'[i].payload_json = raw[i].payload_json
            /\ raw[i].processed_at # None => raw'[i].processed_at # None
       /\ (dec.pc = "idle" /\ dec'.pc # "idle") =>
            \A k \in 1..Len(dec'.rows) : raw[dec'.rows[k]].processed_at = None]_vars

(* C6 witness: a batch is under way while an earlier row is processed. *)
C6_Witness ==
    /\ dec.pc # "idle"
    /\ \E i \in 1..Len(raw) : IsProcessed(i) /\ i \notin BatchIds
    /\ \E i \in BatchIds : \E j \in 1..Len(raw) : IsProcessed(j) /\ j < i

(* C7: an upload whose device id is missing, not a string or empty, or     *)
(* whose fix collection is not a list, is rejected and stores nothing.     *)
ClaimedInvalid(body) ==
    /\ body.kind = "dict"
    /\ \/ body.pid.ty # "str"
       \/ body.pid.v = ""
       \/ body.f.ty # "list"

C7_InvalidUploadStoresNothing ==
    [][\A body \in Bodies :
          (ClaimedInvalid(body) /\ upload(body))
             => (resp' \in {400, 422} /\ raw' = raw /\ points' = points)]_vars

(* the survival condition of the windowing contract *)
Survives(x, s, f) ==
    /\ IntOf(x.utc) # None
    /\ s # None => The(IntOf(x.utc)) >= The(s)
    /\ f # None => The(IntOf(x.utc)) <= The(f)

KeptByWindow(x) == Survives(x, tb.s, tb.f)

C10_GeoJsonShape ==
    tb.gj # None =>
        LET g == The(tb.gj)
            in == The(tb.out)
        IN  /\ g.type = "FeatureCollection"
            /\ Len(g.features) = 1
            /\ g.features[1].type = "Feature"
            /\ g.features[1].geometry.type = "LineString"
            /\ LET c == g.features[1].geometry.coordinates
               IN  /\ Len(c) = Len(in)
                   /\ \A i \in 1..Len(in) :
                         /\ Len(c[i]) = 2
                         /\ c[i][1] = FloatOf(in[i].lon)
                         /\ c[i][2] = FloatOf(in[i].lat)

(* C10 witness: three fixes serialized. *)
C10_Witness ==
    /\ tb.gj # None
    /\ Len(The(tb.out)) = 3
    /\ The(tb.gj).features[1].geometry.coordinates[2] = <<4, 3>>

-----------------------------------------------------------------------------
(* Properties of the live cache worker *)

HeadDevice == Head(live.devices)
AtDevice == live.pc = "loop" /\ live.devices # <<>> /\ live' # live
HasNewData(did) ==
    MaxTEpoch(did) # None /\ The(MaxTEpoch(did)) > LastMaxT(did)
EntriesOf(did) == {r \in riders : r.device_id = did}
TopEntry(did) ==
    CHOOSE r \in EntriesOf(did) : \A x \in EntriesOf(did) : x.id <= r.id

(* C11: an iteration of the tick for a device whose max(t_epoch) is at     *)
(* most its watermark goes on to the next device without calling the       *)
(* builder and without touching track_cache or the watermarks; and no step *)
(* of any tick changes track_cache except for a device with newer data.    *)
C11_WatermarkSkip ==
    /\ [][(/\ AtDevice
           /\ MaxTEpoch(HeadDevice) # None
           /\ The(MaxTEpoch(HeadDevice)) <= LastMaxT(HeadDevice))
          => /\ cache' = cache
             /\ live'.pc = "loop"
             /\ live'.devices = Tail(live.devices)
             /\ live'.outcome = "no_new_data"
             /\ live'.last_max_t = live.last_max_t]_vars
    /\ [][cache' # cache => (AtDevice /\ HasNewData(HeadDevice))]_vars

(* C11 witness: a device that has points was skipped on the watermark test *)
(* and the tick went on.                                                   *)
C11_Witness ==
    /\ live.outcome = "no_new_data"
    /\ live.pc = "loop"
    /\ \E r \in points : r.device_id = live.did /\ r.t_epoch <= LastMaxT(live.did)

(* C12: a step changes last_max_t only for the device of the iteration,    *)
(* only when that iteration committed the track_cache row of the device's  *)
(* resolved entry, and then to the max(t_epoch) the iteration read; a      *)
(* skip, a failed build and an exception leave every watermark as it was.  *)
C12_WatermarkOnlyAfterWrite ==
    /\ [][live'.last_max_t # live.last_max_t
          => /\ AtDevice
             /\ live'.outcome = "written"
             /\ \E c \in cache' :
                   c.race_rider_id
                      = The(_latest_race_rider_window(HeadDevice)).race_rider_id
             /\ DOMAIN live'.last_max_t = DOMAIN live.last_max_t \cup {HeadDevice}
             /\ live'.last_max_t[HeadDevice] = The(MaxTEpoch(HeadDevice))
             /\ \A d \in DOMAIN live.last_max_t \ {HeadDevice} :
                   live'.last_max_t[d] = live.last_max_t[d]]_vars
    /\ [][(AtDevice /\ live'.outcome # "written")
          => live'.last_max_t = live.last_max_t]_vars

(* C12 witness: a tick ended in the exception handler for a device with    *)
(* data newer than its watermark, and the device still has no watermark.   *)
C12_Witness ==
    /\ live.pc = "sleep"
    /\ live.outcome = "exception"
    /\ live.did \notin DOMAIN live.last_max_t
    /\ HasNewData(live.did)

InWindow(t, e) ==
    /\ e.start_time_rfid_epoch # None => t >= The(e.start_time_rfid_epoch)
    /\ e.finish_time_rfid_epoch # None => t <= The(e.finish_time_rfid_epoch)

WindowedCoords(did, e) ==
    LET rows == {r \in points : r.device_id = did /\ InWindow(r.t_epoch, e)}
        ts == Ascending({r.t_epoch : r \in rows})
    IN  [i \in 1..Len(ts) |->
            LET r == CHOOSE x \in rows : x.t_epoch = ts[i]
            IN  <<r.lon, r.lat>>]

-----------------------------------------------------------------------------
(* Properties of the archive *)

RowsOf(tbl, id) == {k \in 1..Len(tbl) : tbl[k].race_rider_id = id}
LatestRow(id) == CHOOSE k \in RowsOf(hist, id) : \A j \in RowsOf(hist, id) : j <= k
Appended == {k \in 1..Len(hist') : k > Len(hist)}
KeepsAFix(fixes, s, f) == \E i \in 1..Len(fixes) : Survives(fixes[i], s, f)

C16_AppendOnly ==
    [][/\ Len(hist') >= Len(hist)
       /\ \A k \in 1..Len(hist) : hist'[k] = hist[k]]_vars

(* C16 witness: an entry has two archive rows, from an upload and from a   *)
(* correction, the decoder has decoded a payload and a tick of the live    *)
(* cache worker has run into the device.                                   *)
C16_Witness ==
    /\ \E j, k \in RowsOf(hist, 1) : j < k /\ hist[j] # hist[k]
    /\ \E i \in 1..Len(raw) : IsProcessed(i)
    /\ live.did = "d1"

(* the times of the points of an archive row *)
TimesOf(row) == {row.gpx.trkpt[i].time : i \in 1..Len(row.gpx.trkpt)}

(* what C17 promises of a correction of entry X to the window [s, f]: one  *)
(* row more, for X, made of the fixes of the latest row's raw text that    *)
(* lie in the window; the older rows and the other entries as they were    *)
RebuiltFor(X, s, f) ==
    /\ Len(hist') = Len(hist) + 1
    /\ \A k \in 1..Len(hist) : hist'[k] = hist[k]
    /\ LET old == hist[LatestRow(X)]
           new == hist'[Len(hist')]
           InNewWindow(x) == Survives(x, s, f)
           kept == SelectSeq(_parse_text_fixes(old.raw_txt), InNewWindow)
       IN  /\ new.race_rider_id = X
           /\ new.raw_txt = old.raw_txt
           /\ new.geojson = _build_geojson_string(kept)
           /\ Len(new.gpx.trkpt) = Len(kept)
           /\ \A i \in 1..Len(kept) :
                 new.gpx.trkpt[i].time = The(IntOf(kept[i].utc))
           /\ f # None => \A t \in TimesOf(new) : t <= The(f)
    /\ \A r \in riders : r.id # X => r \in riders'
    /\ \E r \in riders' : /\ r.id = X
                          /\ r.start_time_rfid = s
                          /\ r.finish_time_rfid = f

(* a correction of entry X of the race that moves the finish mark before   *)
(* the time of a point of X's latest archive row                           *)
MovesFinishBeforeArchivedPoint(race_id, X, t) ==
    /\ t[2].kind = "iso" /\ t[1].kind # "bad"
    /\ \E r \in riders : r.id = X /\ r.race_id = race_id
    /\ RowsOf(hist, X) # {}
    /\ \E p \in TimesOf(hist[LatestRow(X)]) : t[2].t < p

-----------------------------------------------------------------------------
(* Properties of the retention utility *)

(* C18: a dry run that returns (a step that leaves a new dry-run call      *)
(* returned in ret) changes no row of points, and the count it returns is  *)
(* the number of rows a destructive call with the same arguments would     *)
(* delete from the state the dry run saw.                                  *)
C18_DryRunPreview ==
    [][(ret' # ret /\ ret'.dry_run /\ ret'.pc = "returned")
       => /\ points' = points
          /\ ret'.count = Cardinality(points)
                            - Cardinality(DeleteRows(points, ret'.start_epoch,
                                                     ret'.end_epoch, ret'.device_id))]_vars

(* C18 witness: a dry run for one device has returned 2 while the table    *)
(* holds another device's row in the same range.                           *)
C18_Witness ==
    /\ ret.pc = "returned" /\ ret.dry_run
    /\ ret.device_id = Some("d2")
    /\ ret.count = 2
    /\ \E r \in points : /\ r.device_id # "d2"
                         /\ r.t_epoch >= ret.start_epoch
                         /\ r.t_epoch <= ret.end_epoch

(* a row the call is to remove: inside the closed range, and of the given  *)
(* device when one is given (None and "" give none)                        *)
InRange(r) ==
    /\ ret.start_epoch <= r.t_epoch /\ r.t_epoch <= ret.end_epoch
    /\ (ret.device_id \notin {None, Some("")} => r.device_id = The(ret.device_id))

(* C19: the delete of a destructive call removes exactly the rows of its   *)
(* range (and device), leaves every other row of points and every other    *)
(* table as it was, and the count the call returns is the number of rows   *)
(* it removed.                                                             *)
C19_DeleteExactlyTheRange ==
    [][(ret.pc = "counted" /\ ret'.pc = "returned")
       => /\ points' = {r \in points : ~InRange(r)}
          /\ UNCHANGED <<raw, riders, cache, hist>>
          /\ ret'.count = Cardinality(points) - Cardinality(points')]_vars

-----------------------------------------------------------------------------
(* Properties of the timing marker endpoint *)

(* the mark of an entry for a phase and a source *)
MarkOf(rr, phase, source) ==
    CASE phase = "start" /\ source = "rfid" -> rr.start_time_rfid_epoch
      [] phase = "finish" /\ source = "rfid" -> rr.finish_time_rfid_epoch
      [] phase = "start" /\ source = "pi" -> rr.start_time_pi_epoch
      [] phase = "finish" /\ source = "pi" -> rr.finish_time_pi_epoch

(* C20: once upload_timing has accepted a marker (200), some entry of the  *)
(* marker's device carries the marker's epoch as the start or finish mark  *)
(* of the marker's source, where the window of that entry is read from.    *)
C20_AcceptedMarkerIsRecorded ==
    [][\A data \in TimingBodies :
          (upload_timing(data) /\ resp' = 200)
          => \E rr \in riders' :
                /\ rr.device_id = Strip(The(data.device_id))
                /\ MarkOf(rr, Flag(data.phase), Flag(data.source))
                     = Some(data.epoch.n)]_vars

-----------------------------------------------------------------------------
(* Properties of the decoder's batches *)

NewBatchIds == {dec'.rows[k] : k \in 1..Len(dec'.rows)}

(* C21: the batch a poll fetches holds no more than BATCH_SIZE rows, each  *)
(* unprocessed, in ascending id order; no unprocessed row with a lower id  *)
(* than a row of the batch is left out, and the batch is short of          *)
(* BATCH_SIZE only when it holds every unprocessed row.  The rows decoded  *)
(* are the rows fetched.                                                   *)
C21_BatchIsOldestUnprocessed ==
    [][(dec.pc = "idle" /\ dec'.pc # "idle")
       => /\ Len(dec'.rows) <= BATCH_SIZE
          /\ \A k, l \in 1..Len(dec'.rows) : k < l => dec'.rows[k] < dec'.rows[l]
          /\ \A i \in NewBatchIds : i \in 1..Len(raw) /\ raw[i].processed_at = None
          /\ \A i \in NewBatchIds : \A j \in 1..(i - 1) :
                raw[j].processed_at = None => j \in NewBatchIds
          /\ Len(dec'.rows) < BATCH_SIZE
                => NewBatchIds = {i \in 1..Len(raw) : raw[i].processed_at = None}
          /\ DOMAIN dec'.marks = NewBatchIds]_vars

(* C21 witness: a full batch is under way that skipped a processed row     *)
(* with a lower id and left an unprocessed row with a higher id for later. *)
C21_Witness ==
    /\ dec.pc # "idle"
    /\ Len(dec.rows) = BATCH_SIZE
    /\ \E j \in 1..Len(raw) : IsProcessed(j) /\ \A i \in BatchIds : j < i
    /\ \E j \in 1..Len(raw) : ~IsProcessed(j) /\ \A i \in BatchIds : j > i

(* the rows of a batch whose payload decodes *)
Decodable(rows) ==
    LET Loads(i) == ~JsonLoadsRaises(raw[i].payload_json)
    IN  SelectSeq(rows, Loads)

(* C22: a row of a batch whose decode raises adds no Point to the batch,   *)
(* whose Points are those of its other rows alone; and when the batch      *)
(* completes that row is marked processed with parse_error holding the     *)
(* exception text cut to at most PARSE_ERROR_MAX characters, the other     *)
(* rows marked processed with parse_error None.                            *)
C22_FailingRowIsMarked ==
    /\ [][(dec.pc = "idle" /\ dec'.pc # "idle")
             => dec'.to_insert = Gather(Decodable(dec'.rows))]_vars
    /\ [][(dec.pc = "final" /\ dec'.pc = "idle")
             => \A i \in BatchIds :
                   /\ raw'[i].processed_at # None
                   /\ IF JsonLoadsRaises(raw[i].payload_json)
                      THEN /\ raw'[i].parse_error
                                = Some(TruncatedError(raw[i].payload_json))
                           /\ The(raw'[i].parse_error).len <= PARSE_ERROR_MAX
                      ELSE raw'[i].parse_error = None]_vars

(* C23: a batch is one unit of work.  A step of a batch that makes Point   *)
(* rows visible makes the marks of the batch's rows visible with them; and *)
(* a batch that ends with a fetched row still unprocessed (so that the     *)
(* next poll fetches it again) has left no Point of its own in the table.  *)
C23_BatchCommitsAtomically ==
    /\ [][(dec.pc \in {"insert", "fallback"} /\ points' # points)
             => \A i \in BatchIds : raw'[i].processed_at # None]_vars
    /\ [][(dec.pc = "final" /\ dec'.pc = "idle"
             /\ \E i \in BatchIds : raw'[i].processed_at = None)
             => /\ \A k \in 1..Len(dec.to_insert) :
                      dec.to_insert[k] \notin ValuesOf(points')
                /\ \A i \in BatchIds : raw'[i].processed_at = None]_vars

-----------------------------------------------------------------------------
(* Properties of the decode of one fix *)

(* a fix array of nine elements with utc, lat1e6 and lon1e6 *)
WellFormed(fix) ==
    Len(fix) = 9 /\ fix[1] # None /\ fix[2] # None /\ fix[3] # None

(* n / d for an element that is there, None for one that is not *)
Over(v, d) == IF v = None THEN None ELSE Some([n |-> The(v), d |-> d])

(* the row C24 promises for a well-formed fix *)
PromisedPoint(fix, device_id) ==
    [device_id |-> device_id, t_epoch |-> The(fix[1]),
     lat |-> [n |-> The(fix[2]), d |-> 1000000],
     lon |-> [n |-> The(fix[3]), d |-> 1000000],
     ele |-> Over(fix[4], 10), sog |-> Over(fix[5], 100),
     cog |-> Over(fix[6], 10), fx |-> fix[7],
     hdop |-> Over(fix[8], 10), nsat |-> fix[9]]

RECURSIVE PromisedOf(_, _)
PromisedOf(fixes, device_id) ==
    IF fixes = <<>> THEN <<>>
    ELSE (IF WellFormed(Head(fixes))
          THEN <<PromisedPoint(Head(fixes), device_id)>> ELSE <<>>)
         \o PromisedOf(Tail(fixes), device_id)

RECURSIVE PromisedOfRows(_)
PromisedOfRows(rows) ==
    IF rows = <<>> THEN <<>>
    ELSE PromisedOf(raw[Head(rows)].payload_json.f,
                    raw[Head(rows)].payload_json.device_id)
         \o PromisedOfRows(Tail(rows))

(* the Points a batch decodes are, in order, one per well-formed fix of    *)
(* its payloads, each as promised; every row a batch stores carries the    *)
(* values of one of those Points                                           *)
DecodesAsPromised ==
    /\ [][(dec.pc = "idle" /\ dec'.pc # "idle")
             => dec'.to_insert = PromisedOfRows(Decodable(dec'.rows))]_vars
    /\ [][dec.pc \in {"insert", "fallback"}
             => \A r \in points' \ points :
                   \E k \in 1..Len(dec.to_insert) : Values(r) = dec.to_insert[k]]_vars

(* the row of [1700000000,374000000,-1220000000,null,null,null,1,null,8]   *)
(* of device pi-1 apart from its coordinates                               *)
Pi1Row(r) ==
    /\ r.t_epoch = 1700000000
    /\ r.fx = Some(1) /\ r.nsat = Some(8)
    /\ r.ele = None /\ r.sog = None /\ r.cog = None /\ r.hdop = None

FixesOf(i) == raw[i].payload_json.f
Malformed(i) == {k \in 1..Len(FixesOf(i)) : ~WellFormed(FixesOf(i)[k])}
WellFormedKeys(i) ==
    { <<raw[i].payload_json.device_id, The(FixesOf(i)[k][1])>> :
         k \in {j \in 1..Len(FixesOf(i)) : WellFormed(FixesOf(i)[j])} }

(* C25: a fix that lacks utc, lat or lon, or is not nine elements long,    *)
(* gives no Point: a batch decodes as many Points as its payloads hold     *)
(* well-formed fixes, each with the key of one of them.  When the batch    *)
(* completes, the key of every other fix of a payload that held such a fix *)
(* is stored, and the payload's row is marked processed with parse_error   *)
(* None.                                                                   *)
C25_MalformedFixDropped ==
    /\ [][(dec.pc = "idle" /\ dec'.pc # "idle")
             => /\ \A k \in 1..Len(dec'.to_insert) :
                      \E i \in NewBatchIds :
                         /\ ~JsonLoadsRaises(raw[i].payload_json)
                         /\ Key(dec'.to_insert[k]) \in WellFormedKeys(i)
                /\ Len(dec'.to_insert) = Len(PromisedOfRows(Decodable(dec'.rows)))]_vars
    /\ [][(dec.pc = "final" /\ dec'.pc = "idle")
             => \A i \in BatchIds :
                   (~JsonLoadsRaises(raw[i].payload_json) /\ Malformed(i) # {})
                   => /\ WellFormedKeys(i) \subseteq Keys(points')
                      /\ raw'[i].processed_at # None
                      /\ raw'[i].parse_error = None]_vars

-----------------------------------------------------------------------------
(* Properties of the live cache worker's device loop *)

(* the iteration at hand is for a device that has points and race entries  *)
(* and that no tick of this worker has processed yet                       *)
FirstTimeLinked ==
    /\ AtDevice
    /\ HeadDevice \notin DOMAIN live.last_max_t
    /\ MaxTEpoch(HeadDevice) # None
    /\ EntriesOf(HeadDevice) # {}

(* C26: a device the worker has no watermark for, with points and a race   *)
(* entry, is never skipped on the watermark test, whatever its             *)
(* max(t_epoch), zero and negative values included: the iteration goes on  *)
(* to the rebuild of the device's entry.                                   *)
C26_NoWatermarkIsMinusInfinity ==
    [][FirstTimeLinked => live'.outcome \in {"written", "build_failed", "exception"}]_vars

(* C27: the iteration for a device that has points but no race entry goes  *)
(* on to the next device (as "no race rider" when the device has newer     *)
(* data) and writes nothing: track_cache, points and the watermarks stay   *)
(* as they were.                                                           *)
C27_UnlinkedDeviceSkipped ==
    [][(AtDevice /\ MaxTEpoch(HeadDevice) # None /\ EntriesOf(HeadDevice) = {})
       => /\ cache' = cache
          /\ points' = points
          /\ live'.last_max_t = live.last_max_t
          /\ live'.pc = "loop"
          /\ live'.devices = Tail(live.devices)
          /\ HasNewData(HeadDevice) => live'.outcome = "no_race_rider"]_vars

(* C27 witness: a tick passed over a device with points and no entry while *)
(* another device has an entry, and the device's points are still there.   *)
C27_Witness ==
    /\ live.outcome = "no_race_rider"
    /\ EntriesOf(live.did) = {}
    /\ riders # {}
    /\ \E r \in points : r.device_id = live.did
    /\ cache = {}

C29_FailureIsolatedPerDevice ==
    [][(/\ AtDevice
        /\ live'.outcome = "exception"
        /\ \E k \in 2..Len(live.devices) :
              HasNewData(live.devices[k]) /\ EntriesOf(live.devices[k]) # {})
       => /\ live'.pc = "loop"
          /\ live'.devices = Tail(live.devices)]_vars

-----------------------------------------------------------------------------
(* Properties of the archive writer's rows *)

(* the valid fixes of a log that lie in the entry's own window, in the     *)
(* order of the log                                                        *)
OwnWindowFixes(log, e) ==
    LET InOwnWindow(x) ==
            Survives(x, e.start_time_rfid_epoch, e.finish_time_rfid_epoch)
    IN  SelectSeq(_parse_text_fixes(log), InOwnWindow)

(* C31: every track_hist row a text-log upload appends belongs to an entry *)
(* of the upload's device and holds the GeoJSON and GPX of exactly the     *)
(* valid fixes of the uploaded log that lie in that entry's own window, in *)
(* the order of the log, and the uploaded text itself; so two entries of   *)
(* one device are each filtered by their own window from the same upload.  *)
C31_ArchivedRowIsOwnWindow ==
    [][\A body \in TextBodies :
          (riders' = riders /\ upload_text(body)) =>
             \A k \in Appended :
                \E e \in EntriesOf(body.pid) :
                   /\ e.id = hist'[k].race_rider_id
                   /\ hist'[k].raw_txt = The(body.log)
                   /\ LET kept == OwnWindowFixes(The(body.log), e)
                      IN  /\ kept # <<>>
                          /\ hist'[k].geojson = _build_geojson_string(kept)
                          /\ hist'[k].gpx = _build_gpx_string(kept, body.pid)]_vars

(* C31 witness: one upload of the log with the fixes at 100, 200 and 300   *)
(* archived entry 1, whose window is [150, 250], with the fix at 200 only, *)
(* and entry 2 of the same device, which has no bound, with all three.     *)
C31_Witness ==
    /\ Len(hist) = 2
    /\ resp = 200
    /\ hist[1].race_rider_id = 1 /\ hist[2].race_rider_id = 2
    /\ hist[1].raw_txt = LogA /\ hist[2].raw_txt = LogA
    /\ TimesOf(hist[1]) = {200}
    /\ TimesOf(hist[2]) = {100, 200, 300}
    /\ EntryA \in riders /\ EntryB \in riders

(* the entries of the device an upload selects: its highest-id entry and   *)
(* the entries without a track_hist row                                    *)
Selected(did) ==
    {e \in EntriesOf(did) : e = TopEntry(did) \/ RowsOf(hist, e.id) = {}}

(* the entry has a bound and its window keeps no fix of the log *)
WindowMiss(log, e) ==
    /\ e.start_time_rfid_epoch # None \/ e.finish_time_rfid_epoch # None
    /\ ~KeepsAFix(_parse_text_fixes(log), e.start_time_rfid_epoch,
                  e.finish_time_rfid_epoch)

(* the entry has no bound and the log holds a valid fix whose utc is no    *)
(* number: serializing the entry's track raises                            *)
UnboundedOverBadUtc(log, e) ==
    /\ e.start_time_rfid_epoch = None /\ e.finish_time_rfid_epoch = None
    /\ \E i \in 1..Len(_parse_text_fixes(log)) :
          IntOf(_parse_text_fixes(log)[i].utc) = None

-----------------------------------------------------------------------------
(* Properties of the live cache over time *)

HasPoints(d) == \E r \in points : r.device_id = d

(* track_cache holds, for the highest-id entry of the device, the device's *)
(* points inside that entry's window                                       *)
Reflects(d) ==
    \E c \in cache :
        /\ c.race_rider_id = TopEntry(d).id
        /\ c.geojson.features[1].geometry.coordinates
              = WindowedCoords(d, TopEntry(d))

(* C33: for a device with a race entry, once the rows of points change no  *)
(* more, the worker's ticks bring track_cache to hold, from some tick on,  *)
(* the row of the device's highest-id entry with every point of the device *)
(* inside the entry's window, whatever order the points were decoded in.   *)
C33_LiveCacheConverges ==
    \A d \in {"d1", "d2"} :
        EntriesOf(d) # {}
           => (<>[][points' = points]_vars
                  => <>[](HasPoints(d) => Reflects(d)))
(* the device's points inside the window of the marks the entry holds now, *)
(* ascending in time, as GeoJSON coordinates                               *)
CurrentCoords(did, e) ==
    LET rows == {r \in points : /\ r.device_id = did
                                /\ e.start_time_rfid # None
                                      => r.t_epoch >= The(e.start_time_rfid)
                                /\ e.finish_time_rfid # None
                                      => r.t_epoch <= The(e.finish_time_rfid)}
        ts == Ascending({r.t_epoch : r \in rows})
    IN  [i \in 1..Len(ts) |->
            LET r == CHOOSE x \in rows : x.t_epoch = ts[i]
            IN  <<r.lon, r.lat>>]

ReflectsCurrent(d) ==
    \E c \in cache :
        /\ c.race_rider_id = TopEntry(d).id
        /\ c.geojson.features[1].geometry.coordinates
              = CurrentCoords(d, TopEntry(d))

(* C34: with points unchanged, once entries are no longer added and marks  *)
(* no longer corrected, the worker's ticks bring track_cache to hold, from *)
(* some tick on, a row for the entry that is now the highest-id entry of   *)
(* each device with points, with the points inside that entry's current    *)
(* window.                                                                 *)
C34_CacheFollowsLatestEntry ==
    \A d \in Devices :
        (<>[][riders' = riders /\ points' = points]_vars)
           => <>[]((HasPoints(d) /\ EntriesOf(d) # {}) => ReflectsCurrent(d))

(* C35: an iteration that skips the device for having no entry, or whose   *)
(* build reports failure, leaves every watermark as it was; and the next   *)
(* iteration for a device with points that was last skipped for having no  *)
(* entry and has one now writes the track_cache row of that entry,         *)
(* although no point has arrived since.                                    *)
C35_SkipKeepsWatermark ==
    /\ [][(AtDevice /\ live'.outcome \in {"no_race_rider", "build_failed"})
          => live'.last_max_t = live.last_max_t]_vars
    /\ [][(/\ AtDevice
           /\ live.did = HeadDevice
           /\ live.outcome = "no_race_rider"
           /\ EntriesOf(HeadDevice) # {})
          => /\ live'.outcome = "written"
             /\ \E c \in cache' : c.race_rider_id = TopEntry(HeadDevice).id]_vars

-----------------------------------------------------------------------------
(* Properties of text-log uploads served at the same time *)

(* C36: whatever the interleaving of the uploads in flight, an entry that  *)
(* is not the highest-id entry of its device has at most one track_hist    *)
(* row: the one it had before the uploads, or one new row from one of      *)
(* them.                                                                   *)
C36_ClosedEntryArchivedOnce ==
    \A r \in riders :
        r # TopEntry(r.device_id) => Cardinality(RowsOf(hist, r.id)) <= 1

-----------------------------------------------------------------------------
(* Properties of the archive after a correction *)

(* the valid fixes of a log inside the window of the marks a correction    *)
(* writes, start_time_rfid and finish_time_rfid                            *)
CorrectedWindowFixes(log, e) ==
    LET InCorrected(x) == Survives(x, e.start_time_rfid, e.finish_time_rfid)
    IN  SelectSeq(_parse_text_fixes(log), InCorrected)

(* a text-log upload builds every row it appends from the fixes inside the *)
(* window of the entry's start_time_rfid and finish_time_rfid              *)
UploadFiltersByCorrectedMarks ==
    [][\A body \in TextBodies :
          (riders' = riders /\ body.log # None /\ upload_text(body)) =>
             \A k \in Appended :
                \E e \in EntriesOf(body.pid) :
                   /\ e.id = hist'[k].race_rider_id
                   /\ hist'[k].geojson
                         = _build_geojson_string(
                              CorrectedWindowFixes(The(body.log), e))]_vars

(* the marks the archive writer and the live cache worker read are the     *)
(* marks a correction writes                                               *)
ReadMarksAreWrittenMarks ==
    \A r \in riders :
        /\ r.start_time_rfid_epoch = r.start_time_rfid
        /\ r.finish_time_rfid_epoch = r.finish_time_rfid

(* C37: the start and finish marks upload_text and gpx_worker read for an  *)
(* entry are the marks manual_times last wrote for it, so that a text-log  *)
(* upload after a correction of entry X builds X's new track_hist row from *)
(* the fixes inside the corrected window.                                  *)
C37_UploadUsesCorrectedMarks ==
    /\ []ReadMarksAreWrittenMarks
    /\ UploadFiltersByCorrectedMarks

(* the latest track_hist row of the entry holds no point outside the       *)
(* window [s, f]                                                           *)
LatestInside(rows, X, s, f) ==
    \A k \in RowsOf(rows, X) :
        (\A j \in RowsOf(rows, X) : j <= k)
        => \A t \in TimesOf(rows[k]) :
              /\ s # None => t >= The(s)
              /\ f # None => t <= The(f)

(* C38: after a correction of an entry that has a track_hist row is        *)
(* accepted, the entry's latest row, the one race_rider_track returns,     *)
(* holds no point outside the corrected window, also when that window      *)
(* keeps no fix of the stored raw text.                                    *)
C38_LatestArchiveInsideCorrection ==
    [][\A race_id \in 1..2, X \in 1..MaxEntries, t \in ManualTimes :
          (/\ RowsOf(hist, X) # {}
           /\ manual_times(race_id, X, t[1], t[2])
           /\ resp' = 200)
          => LatestInside(hist', X, _parse_iso(t[1]), _parse_iso(t[2]))]_vars


=============================================================================
